---- MODULE Spec2Model ----
(***************************************************************************)
(* NGPC layered 2bpp export of Piskel (MiscExportController.js).           *)
(*                                                                         *)
(* The export handler onDownloadCFileClick_ is modelled as a state machine *)
(* that steps tile by tile through pass 1 (buildLayeredPlan_), pass 2      *)
(* (palette interning and tile encoding) and the emission of the C tables. *)
(* The helpers of the controller are operators computed as the code        *)
(* computes them.  buildTilePaletteRgb444_ is also run on its own          *)
(* (SpecPalette), and the command buffer of the Z80 sound driver of        *)
(* sounds.c is a second state machine (SpecSound).                         *)
(***************************************************************************)
EXTENDS Integers, Sequences, FiniteSets, TLC

VARIABLES
  width, height, frameCount, pix,          \* piskelController: the image
  profileValue, maxLayersValue, maxPalsValue, \* the three UI controls
  pc, run,                                 \* position in the handler, clicks so far
  MAX_LAYERS, MAX_PALS_PER_LAYER,          \* locals of onDownloadCFileClick_
  groups, neededLayers, fi2, pty, ptx,     \* locals of buildLayeredPlan_
  layerCount, l, fi, ty, tx,               \* pass 2 loop variables
  perLayerPalettes, perLayerPalIdMap, perLayerTiles,
  renders,                                 \* renderFrameAt calls, per click
  alerts, downloads,                       \* window.alert / downloadAsFile calls, per click
  palGroup, palOut,                        \* a call of buildTilePaletteRgb444_: argument, result
  SND_COUNT, SND_BUF,                      \* sounds.c: shared RAM 0x7003, 0x7004..0x7012
  s_buf_count, timeout,                    \* sounds.c: statics and locals of the main CPU
  cpuAt, pushArg, pushed, commits,         \* main CPU: position, bytes being pushed, batch so far, commits made
  z80At, regB, regHL,                      \* Z80 driver: position, registers b and hl
  committed, psg                           \* bytes of the committed batches, bytes sent to the sound chip

vars == <<width, height, frameCount, pix, profileValue, maxLayersValue,
          maxPalsValue, pc, run, MAX_LAYERS, MAX_PALS_PER_LAYER, groups,
          neededLayers, fi2, pty, ptx, layerCount, l, fi, ty, tx,
          perLayerPalettes, perLayerPalIdMap, perLayerTiles, renders,
          alerts, downloads, palGroup, palOut, SND_COUNT, SND_BUF, s_buf_count,
          timeout, cpuAt, pushArg, pushed, commits, z80At, regB, regHL,
          committed, psg>>

\* the variables the export handler does not touch
paletteVars == <<palGroup, palOut>>
soundVars == <<SND_COUNT, SND_BUF, s_buf_count, timeout, cpuAt, pushArg, pushed,
               commits, z80At, regB, regHL, committed, psg>>
besideExport == <<paletteVars, soundVars>>

\* ---------------------------------------------------------------- bounds
MaxFrames == 2
MaxRuns == 2
\* sounds.c: commits made by the main CPU, iterations of the wait loop
\* (u16 timeout = 4000 in the source)
MaxBatches == 2
MaxWait == 2
\* sounds.c: commands accepted by Sfx_BufferPush, over all batches
MaxPushes == 6

\* ------------------------------------------------------- JS number helpers
\* the low 16 bits of the two's complement of a (-1 is ...FFFF)
Low16(a) == a % 65536

RECURSIVE BitAndU(_, _)
BitAndU(a, b) ==
  IF a = 0 \/ b = 0 THEN 0
  ELSE ((a % 2) * (b % 2)) + 2 * BitAndU(a \div 2, b \div 2)

\* a & mask, for the masks of the source (3, 0x0F, 0xFF, 0xFFFF)
BitAnd(a, mask) == BitAndU(Low16(a), mask)

\* a | b, for non-negative a and b
RECURSIVE BitOr(_, _)
BitOr(a, b) ==
  IF a = 0 THEN b
  ELSE IF b = 0 THEN a
  ELSE (IF (a % 2) + (b % 2) > 0 THEN 1 ELSE 0) + 2 * BitOr(a \div 2, b \div 2)

RECURSIVE Pow2(_)
Pow2(n) == IF n = 0 THEN 1 ELSE 2 * Pow2(n - 1)

ShiftLeft(a, n) == a * Pow2(n)
ShiftRight(a, n) == a \div Pow2(n)

\* Math.ceil(n / 3) for n >= 0
MathCeilDiv3(n) == IF n % 3 = 0 THEN n \div 3 ELSE (n \div 3) + 1

\* Number -> decimal string, as the sequence of its digits (n >= 0)
RECURSIVE NumberToString(_)
NumberToString(n) ==
  IF n < 10 THEN <<n>> ELSE Append(NumberToString(n \div 10), n % 10)

\* parseInt(s, 10) of a digit string
RECURSIVE parseInt10(_)
parseInt10(s) ==
  IF Len(s) = 0 THEN 0
  ELSE 10 * parseInt10(SubSeq(s, 1, Len(s) - 1)) + s[Len(s)]

\* parseInt(el.value, 10) followed by the clamp v < lo -> lo, v > hi -> hi;
\* a value that parses to NaN (here the empty string) keeps the default
ClampSetting(value, lo, hi, default) ==
  IF Len(value) = 0 THEN default
  ELSE LET v == parseInt10(value)
       IN  IF v < lo THEN lo
           ELSE IF v > hi THEN hi
           ELSE v

\* ---------------------------------------------------- colour / key helpers
\* the key "r,g,b,a": its four comma-separated decimal fields
rgbaKey_(r, g, b, a) ==
  <<NumberToString(r), NumberToString(g), NumberToString(b), NumberToString(a)>>

RECURSIVE KeyDiffFrom(_, _, _)
KeyDiffFrom(ka, kb, i) ==
  IF i > 4 THEN 0
  ELSE LET da == parseInt10(ka[i]) - parseInt10(kb[i])
       IN  IF da # 0 THEN da ELSE KeyDiffFrom(ka, kb, i + 1)

rgbaKeySort_RedOnly(ka, kb) == parseInt10(ka[1]) - parseInt10(kb[1])

rgbaKeySort_(ka, kb) == KeyDiffFrom(ka, kb, 1)

rgbToRgb444_Swapped(r, g, b) ==
  LET r4 == BitAnd(ShiftRight(r, 4), 15)
      g4 == BitAnd(ShiftRight(g, 4), 15)
      b4 == BitAnd(ShiftRight(b, 4), 15)
  IN  BitOr(BitOr(ShiftLeft(r4, 8), ShiftLeft(g4, 4)), b4)

rgbToRgb444_(r, g, b) ==
  LET r4 == BitAnd(ShiftRight(r, 4), 15)
      g4 == BitAnd(ShiftRight(g, 4), 15)
      b4 == BitAnd(ShiftRight(b, 4), 15)
  IN  BitOr(BitOr(ShiftLeft(b4, 8), ShiftLeft(g4, 4)), r4)

\* list.sort(this.rgbaKeySort_) on a list of distinct keys:
\* each key is inserted before the first element that compares greater
RECURSIVE InsertKey(_, _, _)
InsertKey(sorted, key, i) ==
  IF i > Len(sorted) THEN Append(sorted, key)
  ELSE IF rgbaKeySort_(key, sorted[i]) < 0
       THEN SubSeq(sorted, 1, i - 1) \o <<key>> \o SubSeq(sorted, i, Len(sorted))
       ELSE InsertKey(sorted, key, i + 1)

RECURSIVE SortFrom(_, _, _)
SortFrom(list, i, acc) ==
  IF i > Len(list) THEN acc
  ELSE SortFrom(list, i + 1, InsertKey(acc, list[i], 1))

SortKeys(list) == SortFrom(list, 1, <<>>)

InList(key, list) == \E i \in 1..Len(list) : list[i] = key

\* list.slice(start, end) on a 0-based array held as a 1-based sequence
Slice(list, start, end) ==
  SubSeq(list, start + 1, IF end > Len(list) THEN Len(list) ELSE end)

\* -------------------------------------------------- pass 1: tile analysis
\* byte offset of pixel (x, y) of tile (tX, tY) in the ImageData buffer
PixelOffset(imgW, tX, tY, x, y) == ((tY * 8 + y) * imgW + (tX * 8 + x)) * 4

\* The y/x scan of the tile (pixel n of the scan is x = n % 8, y = n \div 8):
\* `set[key]` is unset exactly at the first pixel of each opaque colour, so
\* `list` is the keys of those pixels in scan order.
ScanKeys_OpaqueOnly(px, imgW, tX, tY) ==
  [n \in 0..63 |->
     LET ix == PixelOffset(imgW, tX, tY, n % 8, n \div 8)
         a  == px[ix + 3]
     IN  IF a # 255 THEN <<>> ELSE rgbaKey_(px[ix], px[ix + 1], px[ix + 2], a)]

ScanKeys(px, imgW, tX, tY) ==
  [n \in 0..63 |->
     LET ix == PixelOffset(imgW, tX, tY, n % 8, n \div 8)
         a  == px[ix + 3]
     IN  IF a = 0 THEN <<>> ELSE rgbaKey_(px[ix], px[ix + 1], px[ix + 2], a)]

\* the pixels of the scan at which `set[key]` is still unset
FirstMet(keys) ==
  {n \in 0..63 : keys[n] # <<>> /\ \A m \in 0..(n - 1) : keys[m] # keys[n]}

\* the keys pushed at those pixels, in scan order
RECURSIVE InScanOrder(_, _)
InScanOrder(keys, first) ==
  IF first = {} THEN <<>>
  ELSE LET n == CHOOSE m \in first : \A o \in first : m <= o
       IN  <<keys[n]>> \o InScanOrder(keys, first \ {n})

CollectKeysOf(keys) == InScanOrder(keys, FirstMet(keys))

CollectKeys(px, imgW, tX, tY) == CollectKeysOf(ScanKeys(px, imgW, tX, tY))

\* the sorted list of the tile's opaque unique colours
TileColorList(px, imgW, tX, tY) == SortKeys(CollectKeys(px, imgW, tX, tY))

Chunks_Floor(n) == n \div 3

Chunks(n) == MathCeilDiv3(n)

LayerOverflow_Lenient(chunks, maxLayers) == chunks > maxLayers + 1

LayerOverflow_OffByOne(chunks, maxLayers) == chunks >= maxLayers

LayerOverflow(chunks, maxLayers) == chunks > maxLayers

NeededLayersInit == 1

GroupSlice_Shifted(list, c) == Slice(list, c * 3 + 1, c * 3 + 4)

GroupSlice_Short(list, c) == Slice(list, c * 3, c * 3 + 2)

GroupSlice(list, c) == Slice(list, c * 3, c * 3 + 3)

\* ------------------------------------------------ palette / palette bank
buildTilePaletteRgb444_FromSlot0(groupKeys) ==
  [i \in 0..3 |->
     IF i < Len(groupKeys)
     THEN LET parts == groupKeys[i + 1]
          IN  rgbToRgb444_(parseInt10(parts[1]), parseInt10(parts[2]),
                           parseInt10(parts[3]))
     ELSE 0]

buildTilePaletteRgb444_(groupKeys) ==
  [i \in 0..3 |->
     IF i >= 1 /\ (i - 1) < Len(groupKeys)
     THEN LET parts == groupKeys[i]
          IN  rgbToRgb444_(parseInt10(parts[1]), parseInt10(parts[2]),
                           parseInt10(parts[3]))
     ELSE 0]

PaletteEq(p, pal4) ==
  p[0] = pal4[0] /\ p[1] = pal4[1] /\ p[2] = pal4[2] /\ p[3] = pal4[3]

\* the result of the call: the returned id and the bank after the call
findOrAddPalette_OverCap(bank, pal4, maxCount) ==
  IF \E i \in 1..Len(bank) : PaletteEq(bank[i], pal4)
  THEN [id   |-> (CHOOSE i \in 1..Len(bank) :
                    /\ PaletteEq(bank[i], pal4)
                    /\ \A j \in 1..(i - 1) : ~PaletteEq(bank[j], pal4)) - 1,
        bank |-> bank]
  ELSE IF Len(bank) > maxCount THEN [id |-> -1, bank |-> bank]
  ELSE [id |-> Len(bank), bank |-> Append(bank, pal4)]

findOrAddPalette_Unshift(bank, pal4, maxCount) ==
  IF \E i \in 1..Len(bank) : PaletteEq(bank[i], pal4)
  THEN [id   |-> (CHOOSE i \in 1..Len(bank) :
                    /\ PaletteEq(bank[i], pal4)
                    /\ \A j \in 1..(i - 1) : ~PaletteEq(bank[j], pal4)) - 1,
        bank |-> bank]
  ELSE IF Len(bank) >= maxCount THEN [id |-> -1, bank |-> bank]
  ELSE [id |-> 0, bank |-> <<pal4>> \o bank]

findOrAddPalette_NoSearch(bank, pal4, maxCount) ==
  IF Len(bank) >= maxCount THEN [id |-> -1, bank |-> bank]
  ELSE [id |-> Len(bank), bank |-> Append(bank, pal4)]

findOrAddPalette_(bank, pal4, maxCount) ==
  IF \E i \in 1..Len(bank) : PaletteEq(bank[i], pal4)
  THEN [id   |-> (CHOOSE i \in 1..Len(bank) :
                    /\ PaletteEq(bank[i], pal4)
                    /\ \A j \in 1..(i - 1) : ~PaletteEq(bank[j], pal4)) - 1,
        bank |-> bank]
  ELSE IF Len(bank) >= maxCount THEN [id |-> -1, bank |-> bank]
  ELSE [id |-> Len(bank), bank |-> Append(bank, pal4)]

\* ------------------------------------------------------ tile bit packing
\* map[key] ? map[key] : 0  where map[groupKeys[i]] = (i + 1) & 3
MapLookup_ZeroBased(groupKeys, key) ==
  IF InList(key, groupKeys)
  THEN LET i == CHOOSE j \in 1..Len(groupKeys) :
                  /\ groupKeys[j] = key
                  /\ \A m \in (j + 1)..Len(groupKeys) : groupKeys[m] # key
       IN  BitAnd(i - 1, 3)
  ELSE 0

MapLookup(groupKeys, key) ==
  IF InList(key, groupKeys)
  THEN LET i == CHOOSE j \in 1..Len(groupKeys) :
                  /\ groupKeys[j] = key
                  /\ \A m \in (j + 1)..Len(groupKeys) : groupKeys[m] # key
       IN  BitAnd(i, 3)
  ELSE 0

BlockStartX_Swapped(block) == IF block = 0 THEN 3 ELSE 7

BlockStartX(block) == IF block = 0 THEN 7 ELSE 3

FieldShift_Reversed(k) == (3 - k) * 2

FieldShift(k) == k * 2

\* ci of the pixel visited at step k of the block
PixelCode(px, imgW, x0, y0, groupKeys, y, block, k) ==
  LET x   == x0 + (BlockStartX(block) - k)
      idx == ((y0 + y) * imgW + x) * 4
      a   == px[idx + 3]
  IN  IF a # 0
      THEN MapLookup(groupKeys, rgbaKey_(px[idx], px[idx + 1], px[idx + 2], a))
      ELSE 0

RECURSIVE ByteFrom(_, _, _, _, _, _, _, _, _)
ByteFrom(px, imgW, x0, y0, groupKeys, y, block, k, byteVal) ==
  IF k = 4 THEN byteVal
  ELSE ByteFrom(px, imgW, x0, y0, groupKeys, y, block, k + 1,
         BitOr(byteVal,
               ShiftLeft(BitAnd(PixelCode(px, imgW, x0, y0, groupKeys, y, block, k), 3),
                         FieldShift(k))))

encodeNgpcTile2bppLayered_(px, imgW, x0, y0, groupKeys) ==
  [outPos \in 0..15 |->
     BitAnd(ByteFrom(px, imgW, x0, y0, groupKeys, outPos \div 2, outPos % 2, 0, 0), 255)]

DimensionsInvalid_HeightOnly(w, h) == (h % 8) # 0

DimensionsInvalid(w, h) == (w % 8) # 0 \/ (h % 8) # 0

\* ----------------------------------------------------------- the inputs
\* RGBA colours used to paint the test images
Clear  == <<0, 0, 0, 0>>
Ghost  == <<9, 9, 9, 0>>          \* alpha 0 with a non-zero RGB
Black  == <<0, 0, 0, 255>>        \* quantises to 0x000
Nine   == <<9, 200, 0, 255>>
ColorA == <<16, 0, 0, 255>>       \* ColorA, Faded and Ruby quantise to 0x001
Faded  == <<16, 0, 0, 128>>
Ruby   == <<31, 0, 0, 255>>
Green  == <<0, 32, 0, 255>>
Blue   == <<0, 0, 255, 255>>
White  == <<255, 255, 255, 255>>

\* a tile pattern paints pixel (x, y) with stripe[(x + skew*y) mod length]
\* on its first `rows` rows and leaves the rows below clear
TilePatterns ==
  << [stripe |-> <<Ghost>>, skew |-> 0, rows |-> 8],
     [stripe |-> <<Clear, Clear, Clear, Clear, ColorA, ColorA, ColorA, ColorA>>,
      skew |-> 0, rows |-> 1],
     [stripe |-> <<Black, Clear>>, skew |-> 1, rows |-> 8],
     [stripe |-> <<Ruby, Faded, Clear, ColorA, Black>>, skew |-> 3, rows |-> 8],
     [stripe |-> <<White, Green, Black, Ghost>>, skew |-> 5, rows |-> 8],
     [stripe |-> <<Black, Clear, Green, White>>, skew |-> 3, rows |-> 8],
     [stripe |-> <<White, Blue, Green, Nine, ColorA, Black>>, skew |-> 1, rows |-> 8],
     [stripe |-> <<Blue, White, Ghost, Green, Ruby, Nine, Faded, Black>>,
      skew |-> 3, rows |-> 8] >>

PatternPixel(pat, x, y) ==
  IF y < pat.rows
  THEN pat.stripe[((x + pat.skew * y) % Len(pat.stripe)) + 1]
  ELSE Clear

\* the k-th tile of the image (frames, then rows, then columns) is painted
\* with pattern number (seed[1] + seed[2] * k) mod |TilePatterns|
ImageSeeds == (0..(Len(TilePatterns) - 1)) \X {0, 1}

\* the RGBA bytes of frame f, row-major, 4 bytes per pixel
FrameData(w, h, f, seed) ==
  [i \in 0..(w * h * 4 - 1) |->
     LET p  == i \div 4
         X  == p % w
         Y  == p \div w
         k  == (f * ((h + 7) \div 8) + (Y \div 8)) * ((w + 7) \div 8) + (X \div 8)
         pat == TilePatterns[((seed[1] + seed[2] * k) % Len(TilePatterns)) + 1]
     IN  PatternPixel(pat, X % 8, Y % 8)[(i % 4) + 1]]

Dimensions == { <<8, 8>>, <<16, 8>>, <<8, 16>>, <<10, 8>>, <<8, 12>> }

\* values of the .ngpc-profile, .ngpc-max-layers and .ngpc-max-palettes
\* controls: the text of the control as its digits, empty when not a number
Settings ==
  { <<"sprite", <<>>, <<>>>>,
    <<"bg", <<>>, <<9, 9>>>>,
    <<"sprite", <<0>>, <<0>>>>,
    <<"sprite", <<2>>, <<0>>>>,
    <<"sprite", <<2>>, <<2>>>>,
    <<"bg", <<9>>, <<2>>>> }

tilesX == width \div 8
tilesY == height \div 8
tilesPerFrame == tilesX * tilesY

\* ------------------------------------------------------------ sounds.c
SND_BUF_MAX == 5

\* after Sounds_Init: the driver image is in Z80 RAM (count and buffer
\* zero) and the Z80 runs its polling loop; the statics of sounds.c are zero
SoundAtRest ==
  /\ SND_COUNT = 0
  /\ SND_BUF = [i \in 0..(SND_BUF_MAX * 3 - 1) |-> 0]
  /\ s_buf_count = 0 /\ timeout = 0
  /\ cpuAt = "ready" /\ pushArg = <<>> /\ pushed = <<>> /\ commits = 0
  /\ z80At = "loop" /\ regB = 0 /\ regHL = 0
  /\ committed = <<>> /\ psg = <<>>

Init ==
  /\ \E d \in Dimensions : width = d[1] /\ height = d[2]
  /\ frameCount \in 1..MaxFrames
  /\ \E seed \in ImageSeeds :
       pix = [f \in 0..(frameCount - 1) |-> FrameData(width, height, f, seed)]
  /\ \E st \in Settings :
       profileValue = st[1] /\ maxLayersValue = st[2] /\ maxPalsValue = st[3]
  /\ pc = "idle"
  /\ run = 0
  /\ MAX_LAYERS = 3
  /\ MAX_PALS_PER_LAYER = 16
  /\ groups = <<>>
  /\ neededLayers = NeededLayersInit
  /\ fi2 = 0 /\ pty = 0 /\ ptx = 0
  /\ layerCount = 0
  /\ l = 0 /\ fi = 0 /\ ty = 0 /\ tx = 0
  /\ perLayerPalettes = <<>>
  /\ perLayerPalIdMap = <<>>
  /\ perLayerTiles = <<>>
  /\ renders = 0
  /\ alerts = <<>>
  /\ downloads = <<>>
  /\ palGroup = <<>> /\ palOut = <<>>
  /\ SoundAtRest

\* window.alert(msg) during the current click
Alert(msg) == alerts' = [alerts EXCEPT ![run] = Append(@, msg)]

input == <<width, height, frameCount, pix, profileValue, maxLayersValue, maxPalsValue>>
planVars == <<groups, neededLayers, fi2, pty, ptx>>
encodeVars == <<layerCount, l, fi, ty, tx, perLayerPalettes, perLayerPalIdMap, perLayerTiles>>

\* ------------------------------------------------- onDownloadCFileClick_
\* click on the export button: settings, dimension check, start of pass 1
Click ==
  /\ pc \in {"idle", "done"}
  /\ run < MaxRuns
  /\ run' = run + 1
  /\ MAX_LAYERS' = ClampSetting(maxLayersValue, 1, 8,
                                IF profileValue = "bg" THEN 6 ELSE 3)
  /\ MAX_PALS_PER_LAYER' = ClampSetting(maxPalsValue, 1, 64,
                                        IF profileValue = "bg" THEN 32 ELSE 16)
  /\ renders' = 0
  /\ downloads' = Append(downloads, <<>>)
  /\ layerCount' = 0
  /\ l' = 0 /\ fi' = 0 /\ ty' = 0 /\ tx' = 0
  /\ perLayerPalettes' = <<>>
  /\ perLayerPalIdMap' = <<>>
  /\ perLayerTiles' = <<>>
  /\ neededLayers' = NeededLayersInit
  /\ fi2' = 0 /\ pty' = 0 /\ ptx' = 0
  /\ IF DimensionsInvalid(width, height)
     THEN /\ alerts' = Append(alerts,
                <<[kind |-> "InvalidDimensions", width |-> width, height |-> height]>>)
          /\ groups' = <<>>
          /\ pc' = "done"
     ELSE /\ alerts' = Append(alerts, <<>>)
          /\ groups' = [lay \in 0..(MAX_LAYERS' - 1) |->
                          [f \in 0..(frameCount - 1) |->
                             [t \in 0..(tilesPerFrame - 1) |-> <<>>]]]
          /\ pc' = "plan"
  /\ UNCHANGED <<input, besideExport>>

\* one iteration of the tile loop of buildLayeredPlan_
PlanTile ==
  /\ pc = "plan"
  /\ fi2 < frameCount
  /\ \E list \in {TileColorList(pix[fi2], width, ptx, pty)} :
     LET tileId == pty * tilesX + ptx
         chunks == Chunks(Len(list))
     IN  /\ renders' = IF pty = 0 /\ ptx = 0 THEN renders + 1 ELSE renders
         /\ IF LayerOverflow(chunks, MAX_LAYERS)
            THEN /\ Alert([kind |-> "LayerOverflow", tx |-> ptx, ty |-> pty,
                           frame |-> fi2, colors |-> Len(list),
                           maxLayers |-> MAX_LAYERS, budget |-> MAX_LAYERS * 3])
                 /\ pc' = "done"
                 /\ UNCHANGED planVars
            ELSE /\ neededLayers' = IF chunks > neededLayers THEN chunks ELSE neededLayers
                 /\ groups' = [lay \in DOMAIN groups |->
                                 [groups[lay] EXCEPT ![fi2][tileId] =
                                    IF lay < chunks THEN GroupSlice(list, lay) ELSE <<>>]]
                 /\ IF ptx + 1 < tilesX
                    THEN ptx' = ptx + 1 /\ UNCHANGED <<pty, fi2>>
                    ELSE IF pty + 1 < tilesY
                         THEN ptx' = 0 /\ pty' = pty + 1 /\ UNCHANGED fi2
                         ELSE ptx' = 0 /\ pty' = 0 /\ fi2' = fi2 + 1
                 /\ UNCHANGED <<pc, alerts>>
  /\ UNCHANGED <<input, run, MAX_LAYERS, MAX_PALS_PER_LAYER, encodeVars, downloads,
                 besideExport>>

\* end of buildLayeredPlan_: shrink groups, return the plan, start pass 2
PlanReturn ==
  /\ pc = "plan"
  /\ fi2 >= frameCount
  /\ groups' = [lay \in {n \in DOMAIN groups : n < neededLayers} |-> groups[lay]]
  /\ layerCount' = neededLayers
  /\ pc' = "encode"
  /\ UNCHANGED <<input, run, MAX_LAYERS, MAX_PALS_PER_LAYER, neededLayers, fi2,
                 pty, ptx, l, fi, ty, tx, perLayerPalettes, perLayerPalIdMap,
                 perLayerTiles, renders, alerts, downloads, besideExport>>

\* f with index i set to v, the index added when it is new (arr[i] = v)
SetAt(f, i, v) == [j \in (DOMAIN f) \cup {i} |-> IF j = i THEN v ELSE f[j]]

\* perLayerPalIdMap[l][fi][tileId] = palId; perLayerTiles[l][fi][tileId] =
\* tileBytes; and the increments of the loops over tx, ty, fi and l
EncodeStore(ids1, tiles1, group, palId) ==
  LET tileId == ty * tilesX + tx
  IN  /\ perLayerPalIdMap' =
           SetAt(perLayerPalIdMap, l, SetAt(ids1, fi, SetAt(ids1[fi], tileId, palId)))
      /\ perLayerTiles' =
           SetAt(perLayerTiles, l,
                 SetAt(tiles1, fi, SetAt(tiles1[fi], tileId,
                    encodeNgpcTile2bppLayered_(pix[fi], width, tx * 8, ty * 8, group))))
      /\ IF tx + 1 < tilesX
         THEN tx' = tx + 1 /\ UNCHANGED <<ty, fi, l>>
         ELSE IF ty + 1 < tilesY
              THEN tx' = 0 /\ ty' = ty + 1 /\ UNCHANGED <<fi, l>>
              ELSE IF fi + 1 < frameCount
                   THEN tx' = 0 /\ ty' = 0 /\ fi' = fi + 1 /\ UNCHANGED l
                   ELSE tx' = 0 /\ ty' = 0 /\ fi' = 0 /\ l' = l + 1
      /\ UNCHANGED pc

PaletteAlert ==
  Alert([kind |-> "PaletteOverflow", layer |-> l, maxPalettes |-> MAX_PALS_PER_LAYER])

EncodeAbort_NoReturn(ids1, tiles1, group, palId) ==
  /\ PaletteAlert
  /\ EncodeStore(ids1, tiles1, group, palId)

\* if (palId < 0) { window.alert(...); return; }
EncodeAbort(ids1, tiles1, group, palId) ==
  /\ PaletteAlert
  /\ perLayerPalIdMap' = SetAt(perLayerPalIdMap, l, ids1)
  /\ perLayerTiles' = SetAt(perLayerTiles, l, tiles1)
  /\ pc' = "done"
  /\ UNCHANGED <<l, fi, ty, tx>>

\* one iteration of the tile loop of pass 2
EncodeTile ==
  /\ pc = "encode"
  /\ l < layerCount
  /\ LET tileId  == ty * tilesX + tx
         newLayer == fi = 0 /\ ty = 0 /\ tx = 0
         newFrame == ty = 0 /\ tx = 0
         \* perLayerPalettes[l] = []; perLayerPalIdMap[l] = new Array(frameCount); ...
         \* (a new Array(n) has no element until one is assigned)
         bank0   == IF newLayer THEN <<>> ELSE perLayerPalettes[l]
         ids0    == IF newLayer THEN <<>> ELSE perLayerPalIdMap[l]
         tiles0  == IF newLayer THEN <<>> ELSE perLayerTiles[l]
         \* perLayerPalIdMap[l][fi] = new Array(tilesPerFrame); ...
         ids1    == IF newFrame THEN SetAt(ids0, fi, <<>>) ELSE ids0
         tiles1  == IF newFrame THEN SetAt(tiles0, fi, <<>>) ELSE tiles0
         group   == groups[l][fi][tileId]
         palRgb444 == buildTilePaletteRgb444_(group)
     IN  \E found \in {findOrAddPalette_(bank0, palRgb444, MAX_PALS_PER_LAYER)} :
         /\ renders' = IF newFrame THEN renders + 1 ELSE renders
         /\ perLayerPalettes' = SetAt(perLayerPalettes, l, found.bank)
         /\ IF found.id < 0
            THEN EncodeAbort(ids1, tiles1, group, found.id)
            ELSE EncodeStore(ids1, tiles1, group, found.id) /\ UNCHANGED alerts
  /\ UNCHANGED <<input, run, MAX_LAYERS, MAX_PALS_PER_LAYER, planVars, layerCount,
                 downloads, besideExport>>

\* the tables written into the C file
OutputTables ==
  [ frameCount    |-> frameCount,
    width         |-> width,
    height        |-> height,
    tilesX        |-> tilesX,
    tilesY        |-> tilesY,
    tilesPerFrame |-> tilesPerFrame,
    bytesPerTile  |-> 16,
    layerCount    |-> layerCount,
    palCount      |-> [lay \in 0..(layerCount - 1) |->
                         BitAnd(Len(perLayerPalettes[lay]), 255)],
    palRgb444     |-> [lay \in 0..(layerCount - 1) |->
                         [p \in 0..(MAX_PALS_PER_LAYER - 1) |->
                            [s \in 0..3 |->
                               IF p < Len(perLayerPalettes[lay])
                               THEN BitAnd(perLayerPalettes[lay][p + 1][s], 65535)
                               ELSE 0]]],
    tilePal       |-> [lay \in 0..(layerCount - 1) |->
                         [f \in 0..(frameCount - 1) |->
                            [t \in 0..(tilesPerFrame - 1) |->
                               BitAnd(perLayerPalIdMap[lay][f][t], 255)]]],
    tiles         |-> [lay \in 0..(layerCount - 1) |->
                         [f \in 0..(frameCount - 1) |->
                            [t \in 0..(tilesPerFrame - 1) |->
                               [b \in 0..15 |-> BitAnd(perLayerTiles[lay][f][t][b], 255)]]]],
    tilePos       |-> [t \in 0..(tilesPerFrame - 1) |->
                         <<(t % tilesX) * 8, (t \div tilesX) * 8>>] ]

\* C output and download, after the loops of pass 2
Emit ==
  /\ pc = "encode"
  /\ l >= layerCount
  /\ downloads' = [downloads EXCEPT ![run] = Append(@, OutputTables)]
  /\ pc' = "done"
  /\ UNCHANGED <<input, run, MAX_LAYERS, MAX_PALS_PER_LAYER, planVars, encodeVars,
                 renders, alerts, besideExport>>

Next == Click \/ PlanTile \/ PlanReturn \/ EncodeTile \/ Emit

Spec == Init /\ [][Next]_vars

\* ====================================================================
\* Properties
\* ====================================================================
Frames == 0..(frameCount - 1)
Tiles == 0..(tilesPerFrame - 1)
Max(S) == CHOOSE m \in S : \A n \in S : n <= m
Min(S) == CHOOSE m \in S : \A n \in S : m <= n

\* the source pixel at column x, row y of tile t of frame f, as (R, G, B, A)
SrcPixel(f, t, x, y) ==
  LET o == (((t \div tilesX) * 8 + y) * width + ((t % tilesX) * 8 + x)) * 4
  IN  <<pix[f][o], pix[f][o + 1], pix[f][o + 2], pix[f][o + 3]>>

\* the distinct opaque colours of a tile
TileColors(f, t) ==
  {c \in {SrcPixel(f, t, n % 8, n \div 8) : n \in 0..63} : c[4] # 0}

\* the colour a key stands for
KeyColor(key) ==
  <<parseInt10(key[1]), parseInt10(key[2]), parseInt10(key[3]), parseInt10(key[4])>>

GroupColors(group) == {KeyColor(group[i]) : i \in 1..Len(group)}

\* 0b0000_BBBB_GGGG_RRRR from the top 4 bits of each channel
Quantised(c) == (c[3] \div 16) * 256 + (c[2] \div 16) * 16 + (c[1] \div 16)

CeilThird(n) == (n + 2) \div 3

\* the largest ceil(colours / 3) over all frames and tiles
MaxChunks == Max({CeilThird(Cardinality(TileColors(f, t))) : f \in Frames, t \in Tiles})

DimensionsOk == width % 8 = 0 /\ height % 8 = 0

\* buildLayeredPlan_ has just returned its plan with ok: true
PlanReturned ==
  pc = "encode" /\ l = 0 /\ fi = 0 /\ ty = 0 /\ tx = 0 /\ perLayerPalettes = <<>>

\* the files downloaded by the click that has just ended
Emitted == IF pc = "done" THEN {downloads[run][i] : i \in 1..Len(downloads[run])} ELSE {}

\* the 2-bit index stored for column x, row y in the 16 bytes of a tile
\* (hardware layout: 2 bytes per row, columns 7..4 then 3..0, right to left)
StoredIndex(bytes, x, y) ==
  LET b == IF x >= 4 THEN 0 ELSE 1
      k == 7 - 4 * b - x
  IN  (bytes[2 * y + b] \div Pow2(2 * k)) % 4

\* the RGB444 value shown at a pixel when the layers of table d are drawn
\* in order 0..layerCount-1, or -1 when every layer is transparent there
Composite(d, f, t, x, y) ==
  LET shown == {lay \in 0..(d.layerCount - 1) : StoredIndex(d.tiles[lay][f][t], x, y) # 0}
  IN  IF shown = {} THEN -1
      ELSE LET top == Max(shown)
           IN  d.palRgb444[top][d.tilePal[top][f][t]][StoredIndex(d.tiles[top][f][t], x, y)]

\* C1: after a successful encode, drawing the emitted layers over each other
\* gives, at every opaque source pixel, the RGB444 quantisation of its colour
\* and leaves every transparent source pixel transparent.
C1_RoundTrip ==
  \A d \in Emitted :
    \A f \in Frames, t \in Tiles, n \in 0..63 :
      LET c == SrcPixel(f, t, n % 8, n \div 8)
      IN  Composite(d, f, t, n % 8, n \div 8) = IF c[4] # 0 THEN Quantised(c) ELSE -1

\* a file was emitted for a two-frame image that needs three layers
C1_Witness ==
  /\ pc = "done" /\ Len(downloads[run]) = 1
  /\ downloads[run][1].layerCount = 3
  /\ frameCount = 2
  /\ \E f \in Frames, t \in Tiles : Cardinality(TileColors(f, t)) = 1

\* C2: in a plan returned with ok, the groups of a tile hold exactly the
\* tile's distinct opaque colours, at most 3 per group, each colour once.
C2_PartitionComplete ==
  PlanReturned =>
    \A f \in Frames, t \in Tiles :
      /\ UNION {GroupColors(groups[lay][f][t]) : lay \in DOMAIN groups} = TileColors(f, t)
      /\ \A lay \in DOMAIN groups :
           /\ Len(groups[lay][f][t]) <= 3
           /\ \A i, j \in 1..Len(groups[lay][f][t]) :
                i # j => groups[lay][f][t][i] # groups[lay][f][t][j]
           /\ \A other \in DOMAIN groups :
                other # lay =>
                  GroupColors(groups[lay][f][t]) \cap GroupColors(groups[other][f][t]) = {}

\* a plan with a 7-colour tile next to a tile that needs fewer layers
C2_Witness ==
  /\ PlanReturned
  /\ \E f \in Frames, t \in Tiles : Cardinality(TileColors(f, t)) = 7
  /\ \E f \in Frames, t \in Tiles : Cardinality(TileColors(f, t)) \in 1..3

\* C3 as stated: layerCount is the largest ceil(colours / 3) of any tile,
\* also when every tile is fully transparent.
C3_LayerCountIsMaxChunks ==
  /\ PlanReturned => layerCount = MaxChunks
  /\ \A d \in Emitted : d.layerCount = MaxChunks

\* C3 amended: layerCount is the larger of 1 and the largest
\* ceil(colours / 3) of any tile.
C3_LayerCountAtLeastOne ==
  /\ PlanReturned => layerCount = Max({1, MaxChunks})
  /\ \A d \in Emitted : d.layerCount = Max({1, MaxChunks})

\* a file was emitted for an image whose tiles are all fully transparent
C3_Witness ==
  /\ pc = "done" /\ Len(downloads[run]) = 1
  /\ MaxChunks = 0
  /\ downloads[run][1].layerCount = 1

\* the alerts shown by the click that is running or has just ended
RunAlerts == IF run >= 1 THEN alerts[run] ELSE <<>>
AlertKinds == {RunAlerts[i].kind : i \in 1..Len(RunAlerts)}

\* the tiles whose colour count exceeds the budget of maxLayers * 3
Overfull ==
  {ft \in Frames \X Tiles : Cardinality(TileColors(ft[1], ft[2])) > MAX_LAYERS * 3}

\* C4: the plan fails exactly when some tile has more than maxLayers * 3
\* distinct opaque colours, and the failure names the frame, the tile
\* coordinates, the colour count and the budget of a tile over the budget.
C4_LayerOverflowTrigger ==
  /\ PlanReturned => Overfull = {}
  /\ (pc = "done" /\ DimensionsOk) =>
       /\ ("LayerOverflow" \in AlertKinds) <=> (Overfull # {})
       /\ \A i \in 1..Len(RunAlerts) :
            RunAlerts[i].kind = "LayerOverflow" =>
              LET a == RunAlerts[i]
              IN  /\ a.frame \in Frames /\ a.tx \in 0..(tilesX - 1) /\ a.ty \in 0..(tilesY - 1)
                  /\ a.colors = Cardinality(TileColors(a.frame, a.ty * tilesX + a.tx))
                  /\ a.budget = MAX_LAYERS * 3
                  /\ a.colors > a.budget

\* a tile with exactly budget + 1 colours failed after a tile with exactly
\* budget colours had passed
C4_Witness ==
  /\ pc = "done" /\ Len(RunAlerts) = 1
  /\ RunAlerts[1].kind = "LayerOverflow"
  /\ RunAlerts[1].colors = RunAlerts[1].budget + 1
  /\ RunAlerts[1].tx + RunAlerts[1].ty + RunAlerts[1].frame > 0
  /\ \E f \in Frames, t \in Tiles : Cardinality(TileColors(f, t)) = MAX_LAYERS * 3

\* the 4-slot palette a group needs
NeedPalette(group) ==
  [sl \in 0..3 |-> IF sl >= 1 /\ sl <= Len(group) THEN Quantised(KeyColor(group[sl])) ELSE 0]

\* the distinct palettes layer lay needs over all frames and tiles
NeededPalettes(lay) == {NeedPalette(groups[lay][f][t]) : f \in Frames, t \in Tiles}

BankEntries(lay) == {perLayerPalettes[lay][i] : i \in 1..Len(perLayerPalettes[lay])}

ZeroPalette == [sl \in 0..3 |-> 0]

\* C5: once the plan is returned, the encode ends with the palette-overflow
\* alert exactly when some layer needs more than maxPalettesPerLayer distinct
\* palettes (the all-zero palette included); the alert names the first such
\* layer and the capacity, and is raised on a palette that is not in the
\* full bank of that layer.
C5_PaletteOverflowTrigger ==
  (pc = "done" /\ layerCount > 0) =>
    LET over == {lay \in 0..(layerCount - 1) :
                   Cardinality(NeededPalettes(lay)) > MAX_PALS_PER_LAYER}
    IN  /\ over = {} => RunAlerts = <<>> /\ Len(downloads[run]) = 1
        /\ over # {} =>
             /\ RunAlerts = <<[kind |-> "PaletteOverflow", layer |-> Min(over),
                               maxPalettes |-> MAX_PALS_PER_LAYER]>>
             /\ l = Min(over)
             /\ Len(perLayerPalettes[l]) = MAX_PALS_PER_LAYER
             /\ NeedPalette(groups[l][fi][ty * tilesX + tx]) \notin BankEntries(l)

\* layer 1 overflowed with the all-zero palette of an empty group in its bank
C5_Witness ==
  /\ pc = "done" /\ Len(RunAlerts) = 1
  /\ RunAlerts[1].kind = "PaletteOverflow"
  /\ RunAlerts[1].layer = 1
  /\ ZeroPalette \in BankEntries(1)
  /\ \E f \in Frames, t \in Tiles : groups[1][f][t] = <<>>

\* C6: a click that shows an alert downloads nothing, and a click that
\* downloads has planned every tile and encoded every tile of every layer
\* without error.
C6_FailFast ==
  \A r \in 1..run :
    /\ Len(alerts[r]) > 0 => Len(downloads[r]) = 0
    /\ Len(downloads[r]) <= 1
    /\ (r = run /\ Len(downloads[r]) = 1) =>
         /\ pc = "done" /\ fi2 = frameCount /\ l = layerCount
         /\ DOMAIN perLayerTiles = 0..(layerCount - 1)
         /\ \A lay \in 0..(layerCount - 1) :
              /\ DOMAIN perLayerTiles[lay] = Frames
              /\ \A f \in Frames :
                   /\ DOMAIN perLayerTiles[lay][f] = Tiles
                   /\ DOMAIN perLayerPalIdMap[lay][f] = Tiles
                   /\ \A t \in Tiles : perLayerPalIdMap[lay][f][t] >= 0

\* a click ended on a palette overflow after tiles had been encoded
C6_Witness ==
  /\ pc = "done" /\ Len(RunAlerts) = 1
  /\ RunAlerts[1].kind = "PaletteOverflow"
  /\ \E lay \in DOMAIN perLayerTiles : \E f \in DOMAIN perLayerTiles[lay] :
       perLayerTiles[lay][f] # <<>>
  /\ downloads[run] = <<>>

\* C7: when the width or the height is not a multiple of 8 the click ends
\* with the invalid-dimensions alert with no frame rendered, no plan built
\* and no tile encoded.
C7_DimensionRejection ==
  (run >= 1 /\ ~DimensionsOk) =>
    /\ pc = "done"
    /\ renders = 0
    /\ RunAlerts = <<[kind |-> "InvalidDimensions", width |-> width, height |-> height]>>
    /\ groups = <<>>
    /\ perLayerPalettes = <<>> /\ perLayerTiles = <<>>
    /\ downloads[run] = <<>>

\* the export of an image of width 10 was rejected
C7_Witness == run >= 1 /\ width = 10 /\ pc = "done"

\* the tiles pass 2 has encoded: (layer, frame, tile)
EncodedTiles ==
  UNION {UNION {{<<lay, f, t>> : t \in DOMAIN perLayerTiles[lay][f]} :
                  f \in DOMAIN perLayerTiles[lay]} :
           lay \in DOMAIN perLayerTiles}

\* field j (bits 2j, 2j+1) of a byte
Field(byte, j) == (byte \div Pow2(2 * j)) % 4

\* the colours of a group, in the order of the group
KeyColors(group) == [i \in 1..Len(group) |-> KeyColor(group[i])]

\* the index the pixel rule gives colour c in a group with colours cols:
\* 0 when transparent or not in the group, else 1 + its 0-based position
ExpectedIndex(cols, c) ==
  IF c[4] = 0 \/ \A i \in 1..Len(cols) : cols[i] # c THEN 0
  ELSE CHOOSE i \in 1..Len(cols) : cols[i] = c

\* the expected index of each pixel of tile t of frame f in layer lay,
\* by column and row
ExpectedIndexes(lay, f, t) ==
  LET table == {[n \in 0..63 |-> ExpectedIndex(cols, SrcPixel(f, t, n % 8, n \div 8))] :
                  cols \in {KeyColors(groups[lay][f][t])}}
  IN  CHOOSE idx \in table : TRUE

\* the top row of the tile is group[0] in columns 4..7 and transparent in 0..3
TopRowExample(group, f, t) ==
  /\ Len(group) >= 1
  /\ \A x \in 4..7 : SrcPixel(f, t, x, 0) = KeyColor(group[1])
  /\ \A x \in 0..3 : SrcPixel(f, t, x, 0)[4] = 0

\* C8: an encoded tile is 16 bytes, rows top to bottom, 2 bytes per row, and
\* bits [2k, 2k+1] of byte 2y + b hold the index of the pixel at row y and
\* column 7 - 4b - k; a top row of group[0] in columns 4..7 and transparent
\* in columns 0..3 gives 0x55, 0x00.
C8_BitPackingLayout ==
  pc = "done" =>
    \A e \in EncodedTiles :
      \A bytes \in {perLayerTiles[e[1]][e[2]][e[3]]} :
      \A idx \in {ExpectedIndexes(e[1], e[2], e[3])} :
          /\ DOMAIN bytes = 0..15
          /\ \A y \in 0..7, b \in 0..1 :
               /\ bytes[2 * y + b] \in 0..255
               /\ \A k \in 0..3 :
                    Field(bytes[2 * y + b], k) = idx[8 * y + (7 - 4 * b - k)]
          /\ TopRowExample(groups[e[1]][e[2]][e[3]], e[2], e[3]) =>
               bytes[0] = 85 /\ bytes[1] = 0

\* the tile of the example was encoded, and so was a tile with three colours
C8_Witness ==
  /\ pc = "done"
  /\ \E e \in EncodedTiles : TopRowExample(groups[e[1]][e[2]][e[3]], e[2], e[3])
  /\ \E e \in EncodedTiles : Len(groups[e[1]][e[2]][e[3]]) = 3

\* C9 as stated: within a block the pixel at the larger column offset is in
\* the higher field, i.e. field j of block b holds column 4(1-b) + j.
C9_IncreasingColumnIncreasingBits ==
  pc = "done" =>
    \A e \in EncodedTiles :
      \A bytes \in {perLayerTiles[e[1]][e[2]][e[3]]} :
      \A idx \in {ExpectedIndexes(e[1], e[2], e[3])} :
        \A y \in 0..7, b \in 0..1, j \in 0..3 :
          Field(bytes[2 * y + b], j) = idx[8 * y + 4 * (1 - b) + j]

\* the field that holds the index of column x
FieldOfColumn(x) == 3 - (x % 4)

\* C9 amended: within a block the pixel at the larger column offset is in
\* the lower field (the rightmost pixel of the block is in bits 0..1).
C9_IncreasingColumnDecreasingBits ==
  pc = "done" =>
    \A e \in EncodedTiles :
      \A bytes \in {perLayerTiles[e[1]][e[2]][e[3]]} :
      \A idx \in {ExpectedIndexes(e[1], e[2], e[3])} :
        \A y \in 0..7, x1 \in 0..7, x2 \in 0..7 :
          (x1 < x2 /\ x1 \div 4 = x2 \div 4) =>
            LET byte == bytes[2 * y + (1 - (x1 \div 4))]
            IN  /\ FieldOfColumn(x2) < FieldOfColumn(x1)
                /\ Field(byte, FieldOfColumn(x1)) = idx[8 * y + x1]
                /\ Field(byte, FieldOfColumn(x2)) = idx[8 * y + x2]

\* a block was encoded whose leftmost and rightmost pixels have different indices
C9_Witness ==
  /\ pc = "done"
  /\ \E e \in EncodedTiles : \E y \in 0..7, b \in 0..1 :
       LET byte == perLayerTiles[e[1]][e[2]][e[3]][2 * y + b]
       IN  Field(byte, 0) # Field(byte, 3) /\ Field(byte, 0) # 0 /\ Field(byte, 3) # 0

\* the opaque colour set of every (frame, tile)
TileColorTable == [ft \in Frames \X Tiles |-> TileColors(ft[1], ft[2])]

\* C10: exporting the same image with the same settings again gives the same
\* alert or the same file, and tiles with the same set of opaque colours get
\* the same groups and palette ids whatever the order the colours are met in.
C10_Deterministic ==
  /\ (pc = "done" /\ run >= 2) =>
       alerts[run] = alerts[1] /\ downloads[run] = downloads[1]
  /\ PlanReturned =>
       \A tc \in {TileColorTable} :
         \A a \in Frames \X Tiles, b \in Frames \X Tiles :
           tc[a] = tc[b] =>
             \A lay \in DOMAIN groups : groups[lay][a[1]][a[2]] = groups[lay][b[1]][b[2]]
  /\ \A d \in Emitted :
       \A tc \in {TileColorTable} :
         \A a \in Frames \X Tiles, b \in Frames \X Tiles :
           tc[a] = tc[b] =>
             \A lay \in 0..(d.layerCount - 1) :
               d.tilePal[lay][a[1]][a[2]] = d.tilePal[lay][b[1]][b[2]]

\* the second export of an image ended with a file; two of its tiles have the
\* same three colours, met in a different order
C10_Witness ==
  /\ pc = "done" /\ run = 2 /\ Len(downloads[2]) = 1
  /\ \E f1 \in Frames, f2 \in Frames, t1 \in Tiles, t2 \in Tiles :
       /\ SrcPixel(f1, t1, 0, 0) # SrcPixel(f2, t2, 0, 0)
       /\ SrcPixel(f1, t1, 0, 0)[4] # 0 /\ SrcPixel(f2, t2, 0, 0)[4] # 0
       /\ TileColors(f1, t1) = TileColors(f2, t2)
       /\ Cardinality(TileColors(f1, t1)) = 3

\* the (layer, frame, tile) entries pass 2 has written into perLayerPalIdMap
StoredIds ==
  UNION {UNION {{<<lay, f, t>> : t \in DOMAIN perLayerPalIdMap[lay][f]} :
                  f \in DOMAIN perLayerPalIdMap[lay]} :
           lay \in DOMAIN perLayerPalIdMap}

\* C11: at every point of pass 2 each layer's bank holds at most
\* maxPalettesPerLayer palettes, and every palette id stored in
\* perLayerPalIdMap is an index of its layer's bank.
C11_BankCapacity ==
  /\ \A lay \in DOMAIN perLayerPalettes :
       Len(perLayerPalettes[lay]) <= MAX_PALS_PER_LAYER
  /\ \A e \in StoredIds :
       perLayerPalIdMap[e[1]][e[2]][e[3]] \in 0..(Len(perLayerPalettes[e[1]]) - 1)

\* pass 2 is running on a layer whose bank of two palettes is full and
\* three of its tiles have their id stored
C11_Witness ==
  /\ pc = "encode" /\ l < layerCount
  /\ l \in DOMAIN perLayerPalettes
  /\ MAX_PALS_PER_LAYER = 2
  /\ Len(perLayerPalettes[l]) = 2
  /\ Cardinality({e \in StoredIds : e[1] = l}) >= 3

Layers == 0..(layerCount - 1)

\* C12: maxLayers is at least 1 and, once the plan is returned, layerCount is
\* between 1 and maxLayers and the plan's groups array has exactly layerCount
\* layers; a successful encode has filled exactly layerCount layers of the
\* bank, palette-id and tile tables, and the emitted tables have that many.
C12_LayerCountBound ==
  /\ run >= 1 => MAX_LAYERS \in 1..8
  /\ pc = "encode" =>
       /\ layerCount \in 1..MAX_LAYERS
       /\ DOMAIN groups = Layers
  /\ \A d \in Emitted :
       /\ d.layerCount = layerCount
       /\ d.layerCount \in 1..MAX_LAYERS
       /\ DOMAIN groups = Layers
       /\ DOMAIN perLayerPalettes = Layers
       /\ DOMAIN perLayerPalIdMap = Layers
       /\ DOMAIN perLayerTiles = Layers
       /\ DOMAIN d.palCount = Layers /\ DOMAIN d.palRgb444 = Layers
       /\ DOMAIN d.tilePal = Layers /\ DOMAIN d.tiles = Layers

\* a file was emitted with as many layers as maxLayers = 2 allows; the
\* plan had room for fewer layers than the default
C12_Witness ==
  /\ pc = "done" /\ Len(downloads[run]) = 1
  /\ MAX_LAYERS = 2
  /\ downloads[run][1].layerCount = 2

\* ====================================================================
\* buildTilePaletteRgb444_ on its own
\* ====================================================================
exportVars == <<input, pc, run, MAX_LAYERS, MAX_PALS_PER_LAYER, planVars, encodeVars,
                renders, alerts, downloads>>

\* the export handler at rest, no image loaded
ExportAtRest ==
  /\ width = 8 /\ height = 8 /\ frameCount = 1 /\ pix = <<>>
  /\ profileValue = "sprite" /\ maxLayersValue = <<>> /\ maxPalsValue = <<>>
  /\ pc = "idle" /\ run = 0
  /\ MAX_LAYERS = 3 /\ MAX_PALS_PER_LAYER = 16
  /\ groups = <<>> /\ neededLayers = NeededLayersInit
  /\ fi2 = 0 /\ pty = 0 /\ ptx = 0
  /\ layerCount = 0 /\ l = 0 /\ fi = 0 /\ ty = 0 /\ tx = 0
  /\ perLayerPalettes = <<>> /\ perLayerPalIdMap = <<>> /\ perLayerTiles = <<>>
  /\ renders = 0 /\ alerts = <<>> /\ downloads = <<>>

\* channel values on both sides of the 4-bit boundaries
PalChannels == {0, 15, 16, 127, 240, 255}

\* the groups given to the call: the first n of three keys made of the
\* channels r, g, b in rotation, with a non-zero alpha
PalGroups ==
  {SubSeq(<<rgbaKey_(c[1], c[2], c[3], c[4]), rgbaKey_(c[2], c[3], c[1], c[4]),
            rgbaKey_(c[3], c[1], c[2], 255)>>, 1, n) :
     c \in PalChannels \X PalChannels \X PalChannels \X {1, 255}, n \in 0..3}

InitPalette ==
  /\ ExportAtRest
  /\ SoundAtRest
  /\ palGroup \in PalGroups
  /\ palOut = <<>>

\* palOut = this.buildTilePaletteRgb444_(palGroup)
CallBuildPalette ==
  /\ palOut = <<>>
  /\ palOut' = buildTilePaletteRgb444_(palGroup)
  /\ UNCHANGED <<palGroup, exportVars, soundVars>>

NextPalette == CallBuildPalette

SpecPalette == InitPalette /\ [][NextPalette]_vars

\* C13: the palette built for a group of 0..3 keys has 4 slots; slot 0 is 0,
\* slot i + 1 is ((B >> 4) << 8) | ((G >> 4) << 4) | (R >> 4) of group[i],
\* a value in 0..0x0FFF that does not depend on alpha, and the slots after
\* the group are 0.
C13_PaletteConstruction ==
  palOut # <<>> =>
    /\ DOMAIN palOut = 0..3
    /\ palOut[0] = 0
    /\ \A i \in 0..2 :
         IF i < Len(palGroup)
         THEN LET c == KeyColor(palGroup[i + 1])
              IN  /\ palOut[i + 1] = (c[3] \div 16) * 256 + (c[2] \div 16) * 16 + (c[1] \div 16)
                  /\ palOut[i + 1] \in 0..4095
         ELSE palOut[i + 1] = 0

\* the palette of a two-key group with three different channel nibbles and a
\* low alpha was built
C13_Witness ==
  /\ palOut # <<>>
  /\ Len(palGroup) = 2
  /\ KeyColor(palGroup[1]) = <<240, 16, 127, 1>>
  /\ palOut[1] = 1823 /\ palOut[2] = 3953 /\ palOut[3] = 0

\* the palette pass 2 assigned to an encoded (layer, frame, tile)
AssignedPalette(lay, f, t) == perLayerPalettes[lay][perLayerPalIdMap[lay][f][t] + 1]

\* C14: in every encoded (layer, frame, tile) the index of each of the 64
\* pixels is 0 when the source pixel has A = 0 or its colour is not in the
\* layer's group, else 1 + the 0-based position of its colour in the group;
\* it is in 0..3, and a non-zero index i designates slot i of the palette
\* assigned to the tile, which holds the quantised colour of the pixel.
C14_PixelIndexRule ==
  pc = "done" =>
    \A e \in EncodedTiles :
      \A bytes \in {perLayerTiles[e[1]][e[2]][e[3]]} :
      \A idx \in {ExpectedIndexes(e[1], e[2], e[3])} :
      \A pal \in {AssignedPalette(e[1], e[2], e[3])} :
        \A n \in 0..63 :
          LET i == StoredIndex(bytes, n % 8, n \div 8)
          IN  /\ i \in 0..3
              /\ i = idx[n]
              /\ i # 0 => pal[i] = Quantised(SrcPixel(e[2], e[3], n % 8, n \div 8))

\* a layer of a tile was encoded with an opaque pixel of another layer's
\* colour masked to 0 and with a pixel of index 3
C14_Witness ==
  /\ pc = "done"
  /\ \E e \in EncodedTiles :
       \E n \in 0..63, m \in 0..63 :
         /\ SrcPixel(e[2], e[3], n % 8, n \div 8)[4] # 0
         /\ StoredIndex(perLayerTiles[e[1]][e[2]][e[3]], n % 8, n \div 8) = 0
         /\ StoredIndex(perLayerTiles[e[1]][e[2]][e[3]], m % 8, m \div 8) = 3

\* the bank of the layer pass 2 is working on, before the call for the
\* current tile (a new layer starts with an empty bank)
BankBefore == IF fi = 0 /\ ty = 0 /\ tx = 0 THEN <<>> ELSE perLayerPalettes[l]

\* the palette pass 2 requests for the current tile
Requested == NeedPalette(groups[l][fi][ty * tilesX + tx])

\* the position of a palette in a bank that holds it (0-based, first match)
FirstIndexOf(bank, pal) ==
  Min({i \in 1..Len(bank) : bank[i] = pal}) - 1

\* C15: a findOrAddPalette_ call returns the index of the first bank entry
\* equal to the requested palette when there is one (and leaves the bank
\* alone); otherwise, below capacity, it appends the palette and returns the
\* new last index. At all times the entries of a bank are pairwise distinct
\* and the entry at every stored id is the palette requested for that tile.
C15_FindOrAdd ==
  /\ [](\A lay \in DOMAIN perLayerPalettes :
          \A i, j \in 1..Len(perLayerPalettes[lay]) :
            i # j => perLayerPalettes[lay][i] # perLayerPalettes[lay][j])
  /\ [](\A e \in StoredIds :
          AssignedPalette(e[1], e[2], e[3]) = NeedPalette(groups[e[1]][e[2]][e[3]]))
  /\ [][(pc = "encode" /\ l < layerCount) =>
          \A bank \in {BankBefore} : \A req \in {Requested} :
            IF \E i \in 1..Len(bank) : bank[i] = req
            THEN /\ perLayerPalettes'[l] = bank
                 /\ <<l, fi, ty * tilesX + tx>> \in StoredIds'
                 /\ perLayerPalIdMap'[l][fi][ty * tilesX + tx] = FirstIndexOf(bank, req)
            ELSE Len(bank) < MAX_PALS_PER_LAYER =>
                   /\ perLayerPalettes'[l] = Append(bank, req)
                   /\ <<l, fi, ty * tilesX + tx>> \in StoredIds'
                   /\ perLayerPalIdMap'[l][fi][ty * tilesX + tx] = Len(bank)]_vars

\* the place of a tile in the (frame, tile) scan of a layer
ScanPos(f, t) == f * tilesPerFrame + t

\* a tile reused the first palette of a bank after a second one had been added
C15_Witness ==
  \E e \in StoredIds, e2 \in StoredIds :
    /\ e[1] = e2[1]
    /\ ScanPos(e[2], e[3]) < ScanPos(e2[2], e2[3])
    /\ perLayerPalIdMap[e[1]][e[2]][e[3]] = 1
    /\ perLayerPalIdMap[e2[1]][e2[2]][e2[3]] = 0

\* (R, G, B, A) of a before that of b, field by field
LexLess(a, b) ==
  \E i \in 1..4 : a[i] < b[i] /\ \A j \in 1..(i - 1) : a[j] = b[j]

\* the colours of a set in ascending (R, G, B, A) order
RECURSIVE Ascending(_)
Ascending(S) ==
  IF S = {} THEN <<>>
  ELSE LET m == CHOOSE c \in S : \A d \in S : d = c \/ LexLess(c, d)
       IN  <<m>> \o Ascending(S \ {m})

\* the tiles buildLayeredPlan_ has gone through
Planned ==
  {ft \in Frames \X Tiles :
     ft[1] < fi2 \/ (ft[1] = fi2 /\ ft[2] < pty * tilesX + ptx)}

\* the groups of colour list `colors` over the layers of `plan`: layer c
\* holds colors[3c .. 3c+3) while c < ceil(n / 3) and is empty above
GreedyChunks(plan, f, t, colors) ==
  LET n == Len(colors)
  IN  /\ \A c \in DOMAIN plan :
           KeyColors(plan[c][f][t]) =
             IF c < CeilThird(n)
             THEN SubSeq(colors, 3 * c + 1, Min({3 * c + 3, n}))
             ELSE <<>>
      /\ Cardinality({c \in DOMAIN plan : plan[c][f][t] # <<>>}) = CeilThird(n)
      /\ \A c \in DOMAIN plan :
           (c + 1 < CeilThird(n)) => Len(plan[c][f][t]) = 3

\* C16: every tile that passed the layer check with a sorted colour list of
\* length n has group[c] = colors[3c .. 3c+3) for c < ceil(n / 3) and the
\* empty group in every other layer of the plan: exactly ceil(n / 3)
\* non-empty groups, all of size 3 except possibly the last.
C16_GreedyChunking ==
  /\ pc = "plan" =>
       \A ft \in Planned :
         \A colors \in {Ascending(TileColors(ft[1], ft[2]))} :
           /\ DOMAIN groups = 0..(MAX_LAYERS - 1)
           /\ GreedyChunks(groups, ft[1], ft[2], colors)
  /\ PlanReturned =>
       \A ft \in Frames \X Tiles :
         \A colors \in {Ascending(TileColors(ft[1], ft[2]))} :
           /\ DOMAIN groups = Layers
           /\ GreedyChunks(groups, ft[1], ft[2], colors)

\* a 3-layer plan was returned for an image with a 7-colour tile (groups of
\* 3, 3, 1), a 1-colour tile and a fully transparent tile
C16_Witness ==
  /\ PlanReturned /\ layerCount = 3
  /\ \E f \in Frames, t \in Tiles : Cardinality(TileColors(f, t)) = 7
  /\ \E f \in Frames, t \in Tiles :
       Len(groups[0][f][t]) = 1 /\ groups[1][f][t] = <<>> /\ groups[2][f][t] = <<>>
  /\ \E f \in Frames, t \in Tiles : TileColors(f, t) = {}

\* the colour list of a planned tile as the plan holds it: its groups, layer
\* after layer
RECURSIVE StoredList(_, _, _, _)
StoredList(plan, f, t, c) ==
  IF c \notin DOMAIN plan THEN <<>>
  ELSE plan[c][f][t] \o StoredList(plan, f, t, c + 1)

\* `list` holds exactly the colours of set S, each once, in strictly
\* ascending (R, G, B, A) order
ExactAscending(list, S) ==
  /\ {list[i] : i \in 1..Len(list)} = S
  /\ Len(list) = Cardinality(S)
  /\ \A i \in 1..(Len(list) - 1) : LexLess(list[i], list[i + 1])
  /\ (S = {}) => list = <<>>

\* C17: the colour list pass 1 builds for a tile holds exactly the distinct
\* (R, G, B, A) of the tile's pixels with A # 0, each once, in strictly
\* ascending numeric (R, G, B, A) order, and is empty for a fully
\* transparent tile: so is the list of the tile about to be analysed, and
\* so is the list kept in the plan for every tile analysed so far.
C17_TileColourAnalysis ==
  pc = "plan" =>
    /\ fi2 < frameCount =>
         ExactAscending(KeyColors(TileColorList(pix[fi2], width, ptx, pty)),
                        TileColors(fi2, pty * tilesX + ptx))
    /\ \A ft \in Planned :
         ExactAscending(KeyColors(StoredList(groups, ft[1], ft[2], 0)),
                        TileColors(ft[1], ft[2]))

\* pass 1 has analysed a tile with 7 colours, among them two that differ in
\* alpha only and one whose red (9) sorts after 16 as text, and a fully
\* transparent tile
C17_Witness ==
  /\ pc = "plan"
  /\ \E ft \in Planned :
       /\ Cardinality(TileColors(ft[1], ft[2])) = 7
       /\ {Faded, Ruby, Nine} \subseteq TileColors(ft[1], ft[2])
  /\ \E ft \in Planned : TileColors(ft[1], ft[2]) = {}

\* the ids stored so far in layer lay, and the first tile of the scan that
\* was given id k
LayerIds(lay) == {perLayerPalIdMap[e[1]][e[2]][e[3]] : e \in {s \in StoredIds : s[1] = lay}}
FirstUse(lay, k) ==
  Min({ScanPos(e[2], e[3]) :
         e \in {s \in StoredIds : s[1] = lay /\ perLayerPalIdMap[s[1]][s[2]][s[3]] = k}})

\* C18: banks are append-only. A findOrAddPalette_ call that finds a match
\* or fails on a full bank leaves the bank as it was, and a call that
\* appends keeps every existing entry at its index; the banks of the other
\* layers are not touched. So every id already stored keeps designating the
\* same palette for the rest of the encode, and the ids of a layer are
\* numbered 0, 1, 2, ... in the order their palettes first appear in the
\* (frame, tile) scan.
C18_AppendOnly ==
  /\ [][(pc = "encode" /\ l < layerCount) =>
          /\ \A bank \in {BankBefore} : \A req \in {Requested} :
               /\ ((\E i \in 1..Len(bank) : bank[i] = req) \/ Len(bank) >= MAX_PALS_PER_LAYER)
                    => perLayerPalettes'[l] = bank
               /\ Len(perLayerPalettes'[l]) \in {Len(bank), Len(bank) + 1}
               /\ SubSeq(perLayerPalettes'[l], 1, Len(bank)) = bank
          /\ \A lay \in DOMAIN perLayerPalettes :
               lay # l => perLayerPalettes'[lay] = perLayerPalettes[lay]
          /\ \A e \in StoredIds :
               /\ e \in StoredIds'
               /\ perLayerPalIdMap'[e[1]][e[2]][e[3]] = perLayerPalIdMap[e[1]][e[2]][e[3]]
               /\ AssignedPalette(e[1], e[2], e[3])' = AssignedPalette(e[1], e[2], e[3])]_vars
  /\ [](\A lay \in DOMAIN perLayerPalettes :
          /\ LayerIds(lay) = 0..(Len(perLayerPalettes[lay]) - 1)
          /\ \A j, k \in LayerIds(lay) :
               j < k => FirstUse(lay, j) < FirstUse(lay, k))

\* an encode stopped on a full bank of two palettes after three tiles of the
\* layer had been given ids, the first palette twice
C18_Witness ==
  /\ pc = "done" /\ Len(RunAlerts) = 1
  /\ RunAlerts[1].kind = "PaletteOverflow"
  /\ Len(perLayerPalettes[l]) = 2
  /\ LayerIds(l) = {0, 1}
  /\ Cardinality({s \in StoredIds : s[1] = l /\ perLayerPalIdMap[s[1]][s[2]][s[3]] = 0}) = 2

\* nothing of pass 2 has happened: no palette interned, no tile packed
NothingEncoded ==
  perLayerPalettes = <<>> /\ perLayerPalIdMap = <<>> /\ perLayerTiles = <<>>

\* the layer-0 palette a tile would be given: its first three colours
FirstPalette(f, t) ==
  LET colors == Ascending(TileColors(f, t))
  IN  [sl \in 0..3 |-> IF sl >= 1 /\ sl <= Len(colors) THEN Quantised(colors[sl]) ELSE 0]

\* C19: while the planner runs nothing is interned or packed, and pass 2
\* starts only after the planner has examined every tile of every frame.
\* For an image with a tile over the budget of maxLayers * 3 colours the
\* click ends with the layer-overflow alert and nothing else, whatever the
\* palette needs of its layers, and the alert names the first tile over the
\* budget in (frame, ty, tx) scan order.
C19_PassOrdering ==
  /\ pc = "plan" => NothingEncoded
  /\ pc = "encode" => fi2 = frameCount /\ pty = 0 /\ ptx = 0
  /\ (pc = "done" /\ DimensionsOk) =>
       \A over \in {Overfull} :
         /\ ~NothingEncoded => over = {}
         /\ over # {} =>
              /\ NothingEncoded
              /\ Len(RunAlerts) = 1
              /\ RunAlerts[1].kind = "LayerOverflow"
              /\ ScanPos(RunAlerts[1].frame, RunAlerts[1].ty * tilesX + RunAlerts[1].tx)
                   = Min({ScanPos(ft[1], ft[2]) : ft \in over})

\* an export with room for one palette per layer ended on the layer overflow
\* of the second tile of the scan; a later tile is over the budget too, and
\* the tiles within the budget need two different layer-0 palettes
C19_Witness ==
  /\ pc = "done" /\ Len(RunAlerts) = 1
  /\ RunAlerts[1].kind = "LayerOverflow"
  /\ MAX_PALS_PER_LAYER = 1
  /\ ScanPos(RunAlerts[1].frame, RunAlerts[1].ty * tilesX + RunAlerts[1].tx) = 1
  /\ Cardinality(Overfull) >= 2
  /\ Cardinality({FirstPalette(ft[1], ft[2]) : ft \in (Frames \X Tiles) \ Overfull}) >= 2

\* ====================================================================
\* sounds.c: the main CPU's command buffer and the Z80 polling driver
\* ====================================================================
\* the three bytes of the command pushed as number cmd of batch number
\* batch: every byte of every command is different and not 0
CommandBytes(batch, cmd) ==
  LET t == batch * 64 + cmd * 4
  IN  <<t + 1, t + 2, t + 3>>

InitSound ==
  /\ ExportAtRest
  /\ palGroup = <<>> /\ palOut = <<>>
  /\ SoundAtRest

cpuVars == <<s_buf_count, timeout, cpuAt, pushArg, pushed, commits, committed>>
z80Vars == <<z80At, regB, regHL, psg>>
besideSound == <<exportVars, paletteVars>>

\* Sfx_BufferBegin(): s_buf_count = 0
Sfx_BufferBegin ==
  /\ cpuAt = "ready" /\ commits < MaxBatches
  /\ s_buf_count' = 0
  /\ pushed' = <<>>
  /\ UNCHANGED <<SND_COUNT, SND_BUF, timeout, cpuAt, pushArg, commits, committed, z80Vars, besideSound>>

\* Sfx_BufferPush(b1, b2, b3): the call and the test s_buf_count < SND_BUF_MAX
Sfx_BufferPush ==
  /\ cpuAt = "ready" /\ commits < MaxBatches
  /\ (Len(committed) \div 3) + s_buf_count < MaxPushes \/ s_buf_count >= SND_BUF_MAX
  /\ IF s_buf_count < SND_BUF_MAX
     THEN /\ pushArg' = CommandBytes(commits + 1, s_buf_count)
          /\ cpuAt' = "store0"
     ELSE UNCHANGED <<pushArg, cpuAt>>
  /\ UNCHANGED <<SND_COUNT, SND_BUF, s_buf_count, timeout, pushed, commits, committed,
                 z80Vars, besideSound>>

\* SND_BUF[idx + k] = b(k+1), one store at a time, then s_buf_count++
PushStore ==
  /\ cpuAt \in {"store0", "store1", "store2"}
  /\ LET k   == CHOOSE n \in 0..2 : cpuAt = <<"store0", "store1", "store2">>[n + 1]
         idx == (s_buf_count * 3) % 256
     IN  /\ SND_BUF' = [SND_BUF EXCEPT ![idx + k] = pushArg[k + 1]]
         /\ IF k < 2
            THEN /\ cpuAt' = <<"store1", "store2">>[k + 1]
                 /\ UNCHANGED <<s_buf_count, pushArg, pushed>>
            ELSE /\ s_buf_count' = (s_buf_count + 1) % 256
                 /\ pushed' = pushed \o pushArg
                 /\ pushArg' = <<>>
                 /\ cpuAt' = "ready"
  /\ UNCHANGED <<SND_COUNT, timeout, commits, committed, z80Vars, besideSound>>

\* Sfx_BufferCommit(): the call, WaitBufferFree starts with its timeout
Sfx_BufferCommit ==
  /\ cpuAt = "ready" /\ commits < MaxBatches
  /\ timeout' = MaxWait
  /\ cpuAt' = "wait"
  /\ UNCHANGED <<SND_COUNT, SND_BUF, s_buf_count, pushArg, pushed, commits, committed,
                 z80Vars, besideSound>>

\* while (SND_COUNT && timeout) timeout--;  one test of the loop condition
WaitBufferFree ==
  /\ cpuAt = "wait"
  /\ IF SND_COUNT # 0 /\ timeout # 0
     THEN timeout' = timeout - 1 /\ UNCHANGED cpuAt
     ELSE timeout' = 0 /\ cpuAt' = "count"
  /\ UNCHANGED <<SND_COUNT, SND_BUF, s_buf_count, pushArg, pushed, commits, committed,
                 z80Vars, besideSound>>

\* SND_COUNT = s_buf_count; s_buf_count = 0;
CommitCount ==
  /\ cpuAt = "count"
  /\ SND_COUNT' = s_buf_count
  /\ s_buf_count' = 0
  /\ committed' = committed \o pushed
  /\ pushed' = <<>>
  /\ commits' = commits + 1
  /\ cpuAt' = "ready"
  /\ UNCHANGED <<SND_BUF, timeout, pushArg, z80Vars, besideSound>>

\* loop: ld a,(0x0003); or a; jr z,loop; ld b,a; ld hl,0x0004
Z80Poll ==
  /\ z80At = "loop"
  /\ SND_COUNT # 0
  /\ regB' = SND_COUNT
  /\ regHL' = 4
  /\ z80At' = "cmd"
  /\ UNCHANGED <<SND_COUNT, SND_BUF, cpuVars, psg, besideSound>>

\* cmd_loop: ld a,(hl); ld (0x4001),a; ld (0x4000),a; inc hl  -- one of the
\* three bytes of a command; after the third, djnz cmd_loop
Z80Command ==
  /\ z80At = "cmd"
  /\ psg' = Append(psg, SND_BUF[regHL - 4])
  /\ regHL' = regHL + 1
  /\ IF (regHL - 4) % 3 = 2
     THEN /\ regB' = (regB + 255) % 256
          /\ z80At' = IF regB' # 0 THEN "cmd" ELSE "clear"
     ELSE UNCHANGED <<regB, z80At>>
  /\ UNCHANGED <<SND_COUNT, SND_BUF, cpuVars, besideSound>>

\* xor a; ld (0x0003),a; jr loop
Z80Clear ==
  /\ z80At = "clear"
  /\ SND_COUNT' = 0
  /\ z80At' = "loop"
  /\ UNCHANGED <<SND_BUF, cpuVars, regB, regHL, psg, besideSound>>

NextSound ==
  \/ Sfx_BufferBegin \/ Sfx_BufferPush \/ PushStore \/ Sfx_BufferCommit
  \/ WaitBufferFree \/ CommitCount
  \/ Z80Poll \/ Z80Command \/ Z80Clear

SpecSound == InitSound /\ [][NextSound]_vars

IsPrefix(a, b) == Len(a) <= Len(b) /\ SubSeq(b, 1, Len(a)) = a

\* C20: the main CPU writes the command buffer and the count byte only
\* while the count is 0, so the Z80 sends to the sound chip exactly the bytes
\* of the committed batches, in order, none overwritten, torn or lost, also
\* when the wait of WaitBufferFree runs out.
C20_CommandHandshake ==
  /\ [][(SND_BUF' # SND_BUF \/ cpuAt = "count") => SND_COUNT = 0]_vars
  /\ [](IsPrefix(psg, committed))
  /\ []((cpuAt = "ready" /\ SND_COUNT = 0 /\ z80At = "loop") => psg = committed)

====
